---- MODULE Spec2Model ----
(***************************************************************************)
(* Flight search data pipeline of flightscanner.                           *)
(*                                                                         *)
(*  Spec        credential cache (auth store), the HTTP client and the     *)
(*              retry policy of the flight search query                    *)
(*  SpecLoc     the location prefill effect of the Search page and the     *)
(*              location store                                             *)
(*  SpecFilter  the filter engine of the FlightFilters component           *)
(*  SpecSearch  the filter engine over several searches of one page        *)
(*  SpecNorm    normalization of provider offers by the flight service     *)
(*  SpecHl      the highlight selector                                     *)
(*  SpecDir     the location service: keyword search and lookup by code    *)
(***************************************************************************)
EXTENDS Integers, Sequences, FiniteSets, TLC

\* ------------------------------------------------------------------ bounds
\* Number of concurrently mounted flight search queries (httpClient callers).
NumCallers == 2
\* The clock advances at most this many times, TickMs each.
MaxTicks == 1
\* The token endpoint issues at most this many tokens in one run.
MaxTokens == 2
\* Number of times the origin/destination of the Search page change.
MaxQueries == 2
\* Longest offer list of a search result.
MaxOffers == 2
\* A slider thumb is moved to the slider's maximum or to one of this many
\* positions counted in steps from its minimum.
NumSliderStops == 1
\* Most segments of an itinerary of a provider offer.
MaxSegments == 2
\* Most traveler-pricing entries of a provider offer, and most passengers of
\* a search.
MaxTravelers == 3
\* Longest offer list handed to the highlight selector.
MaxHighlightOffers == 3
\* Most locations in one response of the location endpoint.
MaxLocations == 3

\* ---------------------------------------------------------------- constants
NULL == 0
TOKEN_EXPIRY_BUFFER == 60 * 1000
TickMs == 30 * 1000
\* expires_in (seconds) the token endpoint may answer with: shorter than the
\* buffer (never usable), and long enough to be usable until the next tick.
ExpiresInValues == {30, 90}

Callers == 1..NumCallers
Tokens == 1..(MaxTokens + 1)

NoError == ""
MsgNotConfigured == "Amadeus API credentials not configured"
MsgAuthFailed == "Auth failed"
MsgFetchFailed == "Failed to fetch"
MsgWaitFailed == "Failed to fetch token"

NoCode == "none"
NoErr == [cause |-> "none", code |-> NoCode, from |-> "none", msg |-> NoError]
Pending == [st |-> "pending", token |-> NULL, msg |-> NoError, cause |-> "none"]

VARIABLES
    \* auth store (useAuthStore)
    accessToken, expiresAt, isLoading, error,
    \* environment: clock, client identity, token endpoint
    now, configured, nextToken,
    \* one flight search query per caller: position, bearer token of the request
    \* in flight, react-query failure count, last error thrown to the query
    pc, tok, failureCount, lastErr,
    \* history: how the token of the caller was obtained, the result of the
    \* refresh a waiting caller joined, the number of retries that followed a
    \* rejected token (token endpoint non-2xx, downstream 401), tokens answered
    \* with 401, getValidToken calls without a usable credential and token
    \* requests sent since the last token response
    via, awaited, authRetries, rejected, calls, reqs,
    \* location store (useLocationStore)
    cache, selectedOrigin, selectedDestination,
    \* Search page: origin/destination of the URL, component state, the runs of
    \* the fetchLocations effect (one per change of origin/destination) and the
    \* number of the latest run
    urlOrigin, urlDestination, originLocation, destinationLocation,
    isLoadingLocations, eff, latest,
    \* FlightFilters: the offers prop (data.offers), the filter state; Search
    \* page: filteredOffers; whether the handler that ran last was a change of
    \* one filter or clearFilters
    offers, filters, filteredOffers, lastOp,
    \* flight service: the provider offer of the last response, the passenger
    \* count of the search that asked for it, and the offer normalizeOffer
    \* made of it
    rawOffer, searchPassengers, normalized,
    \* FlightHighlights: the offers prop and the highlights memo
    hlOffers, highlights,
    \* location service: the call in progress or just ended (operation,
    \* keyword or code, position, failure met), its network use (token requests
    \* asked of the auth store, location requests sent, the provider response),
    \* the list searchLocations made of the response and the value returned
    dirCall, dirNet, dirResults, dirOut

authStore == <<accessToken, expiresAt, isLoading, error>>
authVars == <<accessToken, expiresAt, isLoading, error, now, configured, nextToken,
              pc, tok, failureCount, lastErr, via, awaited, authRetries, rejected,
              calls, reqs>>

locStore == <<cache, selectedOrigin, selectedDestination>>
locVars == <<cache, selectedOrigin, selectedDestination, urlOrigin, urlDestination,
             originLocation, destinationLocation, isLoadingLocations, eff, latest>>

filterVars == <<offers, filters, filteredOffers, lastOp>>

normVars == <<rawOffer, searchPassengers, normalized>>

hlVars == <<hlOffers, highlights>>

dirVars == <<dirCall, dirNet, dirResults, dirOut>>

vars == <<authVars, locVars, filterVars, normVars, hlVars, dirVars>>

\* What the actions of one component leave alone.
notAuth == <<locVars, filterVars, normVars, hlVars, dirVars>>
notLoc == <<authVars, filterVars, normVars, hlVars, dirVars>>
notFilter == <<authVars, locVars, normVars, hlVars, dirVars>>
notNorm == <<authVars, locVars, filterVars, hlVars, dirVars>>
notHl == <<authVars, locVars, filterVars, normVars, dirVars>>
notDir == <<authVars, locVars, filterVars, normVars, hlVars>>

\* ------------------------------------------------------------ auth store

IsTokenValidNoBuffer ==
    /\ accessToken # NULL
    /\ expiresAt # NULL
    /\ now < expiresAt

IsTokenValidNever == FALSE

IsTokenValid ==
    /\ accessToken # NULL
    /\ expiresAt # NULL
    /\ now < expiresAt - TOKEN_EXPIRY_BUFFER

NeverLoading == FALSE

\* fetchToken: "Prevent concurrent token fetches"
FetchInProgress == isLoading

ClearNothing ==
    /\ error' = NoError
    /\ UNCHANGED <<accessToken, expiresAt>>

ClearTokenOnly ==
    /\ accessToken' = NULL
    /\ error' = NoError
    /\ UNCHANGED expiresAt

clearToken ==
    /\ accessToken' = NULL
    /\ expiresAt' = NULL
    /\ error' = NoError

\* The state of the credential cache as the store's fields give it: FETCHING
\* while isLoading is set, VALID while isTokenValid() holds of the stored
\* pair at time t, EMPTY otherwise.
CacheState(token, expiry, loading, t) ==
    IF loading THEN "FETCHING"
    ELSE IF token # NULL /\ expiry # NULL /\ t < expiry - TOKEN_EXPIRY_BUFFER
         THEN "VALID"
         ELSE "EMPTY"

\* retry option of useFlightSearch; fc is react-query's failureCount, the
\* number of failures before this one.
retry(fc, err) ==
    IF err.code = "CONFIG_ERROR" THEN FALSE
    ELSE IF err.code = "AUTH_ERROR" THEN fc < 1
    ELSE fc < 2

\* The query function of caller c threw err: react-query asks retry() and
\* either schedules another attempt or settles the query in error.
Fail(c, err) ==
    /\ lastErr' = [lastErr EXCEPT ![c] = err]
    /\ IF retry(failureCount[c], err)
       THEN /\ failureCount' = [failureCount EXCEPT ![c] = @ + 1]
            /\ authRetries' = [authRetries EXCEPT ![c] =
                                  IF err.cause = "auth" THEN @ + 1 ELSE @]
            /\ pc' = [pc EXCEPT ![c] = "retryWait"]
       ELSE /\ UNCHANGED <<failureCount, authRetries>>
            /\ pc' = [pc EXCEPT ![c] = "error"]

CanCall(c) == pc[c] \in {"idle", "retryWait"}

\* httpClient -> getValidToken: the cached token is valid and is returned;
\* the request is sent with it.
CallCached(c) ==
    /\ CanCall(c)
    /\ IsTokenValid
    /\ pc' = [pc EXCEPT ![c] = "request"]
    /\ tok' = [tok EXCEPT ![c] = accessToken]
    /\ via' = [via EXCEPT ![c] = "cache"]
    /\ lastErr' = [lastErr EXCEPT ![c] = NoErr]
    /\ awaited' = [awaited EXCEPT ![c] = Pending]
    /\ UNCHANGED <<authStore, now, configured, nextToken, failureCount,
                   authRetries, rejected, calls, reqs>>
    /\ UNCHANGED notAuth

\* getValidToken -> fetchToken while another fetch is loading: the caller
\* polls the store every 100 ms.
CallJoin(c) ==
    /\ CanCall(c)
    /\ ~IsTokenValid
    /\ FetchInProgress
    /\ pc' = [pc EXCEPT ![c] = "waiting"]
    /\ via' = [via EXCEPT ![c] = "none"]
    /\ lastErr' = [lastErr EXCEPT ![c] = NoErr]
    /\ awaited' = [awaited EXCEPT ![c] = Pending]
    /\ calls' = calls + 1
    /\ UNCHANGED <<authStore, now, configured, nextToken, tok, failureCount,
                   authRetries, rejected, reqs>>
    /\ UNCHANGED notAuth

\* fetchToken without client id or secret.
CallConfigError(c) ==
    /\ CanCall(c)
    /\ ~IsTokenValid
    /\ ~FetchInProgress
    /\ ~configured
    /\ error' = MsgNotConfigured
    /\ isLoading' = FALSE
    /\ via' = [via EXCEPT ![c] = "none"]
    /\ awaited' = [awaited EXCEPT ![c] = Pending]
    /\ calls' = calls + 1
    /\ Fail(c, [cause |-> "config", code |-> "CONFIG_ERROR", from |-> "own",
                msg |-> MsgNotConfigured])
    /\ UNCHANGED <<accessToken, expiresAt, now, configured, nextToken, tok,
                   rejected, reqs>>
    /\ UNCHANGED notAuth

\* fetchToken sends the client-credentials request.
CallStartRefresh(c) ==
    /\ CanCall(c)
    /\ ~IsTokenValid
    /\ ~FetchInProgress
    /\ configured
    /\ isLoading' = TRUE
    /\ error' = NoError
    /\ pc' = [pc EXCEPT ![c] = "fetching"]
    /\ via' = [via EXCEPT ![c] = "none"]
    /\ lastErr' = [lastErr EXCEPT ![c] = NoErr]
    /\ awaited' = [awaited EXCEPT ![c] = Pending]
    /\ calls' = calls + 1
    /\ reqs' = reqs + 1
    /\ UNCHANGED <<accessToken, expiresAt, now, configured, nextToken, tok,
                   failureCount, authRetries, rejected>>
    /\ UNCHANGED notAuth

\* The result of the refresh that settles now, noted for the callers that
\* joined it.
Settle(res) ==
    awaited' = [w \in Callers |->
                  IF pc[w] = "waiting" /\ awaited[w] = Pending THEN res
                  ELSE awaited[w]]

\* Token endpoint answers 2xx with {access_token, expires_in}.
TokenOk(c, expires_in) ==
    /\ pc[c] = "fetching"
    /\ nextToken <= MaxTokens
    /\ accessToken' = nextToken
    /\ expiresAt' = now + expires_in * 1000
    /\ isLoading' = FALSE
    /\ error' = NoError
    /\ nextToken' = nextToken + 1
    /\ pc' = [pc EXCEPT ![c] = "request"]
    /\ tok' = [tok EXCEPT ![c] = nextToken]
    /\ via' = [via EXCEPT ![c] = "own"]
    /\ Settle([st |-> "ok", token |-> nextToken, msg |-> NoError, cause |-> "none"])
    /\ calls' = 0
    /\ reqs' = 0
    /\ UNCHANGED <<now, configured, failureCount, lastErr, authRetries, rejected>>
    /\ UNCHANGED notAuth

\* catch block of fetchToken: whatever was thrown inside the try.
fetchTokenCatch(c, cause, message) ==
    /\ accessToken' = NULL
    /\ expiresAt' = NULL
    /\ isLoading' = FALSE
    /\ error' = message
    /\ Settle([st |-> "fail", token |-> NULL, msg |-> message, cause |-> cause])
    /\ calls' = 0
    /\ reqs' = 0
    /\ Fail(c, [cause |-> cause, code |-> "AUTH_ERROR", from |-> "own",
                msg |-> message])
    /\ UNCHANGED <<now, configured, nextToken, tok, via, rejected>>
    /\ UNCHANGED notAuth

\* Token endpoint answers non-2xx.
TokenRejected(c) ==
    /\ pc[c] = "fetching"
    /\ fetchTokenCatch(c, "auth", MsgAuthFailed)

\* fetch() of the token request rejects (transport failure).
TokenNetworkFail(c) ==
    /\ pc[c] = "fetching"
    /\ fetchTokenCatch(c, "network", MsgFetchFailed)

\* One tick of the 100 ms interval of a waiting caller that finds isLoading
\* false.
Poll(c) ==
    /\ pc[c] = "waiting"
    /\ ~isLoading
    /\ IF accessToken # NULL
       THEN /\ pc' = [pc EXCEPT ![c] = "request"]
            /\ tok' = [tok EXCEPT ![c] = accessToken]
            /\ via' = [via EXCEPT ![c] = "waited"]
            /\ UNCHANGED <<failureCount, lastErr, authRetries>>
       ELSE /\ Fail(c, [cause |-> awaited[c].cause, code |-> NoCode,
                        from |-> "waited",
                        msg |-> IF error # NoError THEN error ELSE MsgWaitFailed])
            /\ UNCHANGED <<tok, via>>
    /\ UNCHANGED <<authStore, now, configured, nextToken, awaited, rejected,
                   calls, reqs>>
    /\ UNCHANGED notAuth

\* The request of caller c is answered: its bookkeeping ends.
Sent(c) ==
    /\ tok' = [tok EXCEPT ![c] = NULL]
    /\ via' = [via EXCEPT ![c] = "none"]
    /\ awaited' = [awaited EXCEPT ![c] = Pending]

\* httpClient: the downstream request is answered 2xx.
RespOk(c) ==
    /\ pc[c] = "request"
    /\ pc' = [pc EXCEPT ![c] = "success"]
    /\ Sent(c)
    /\ UNCHANGED <<authStore, now, configured, nextToken, failureCount,
                   lastErr, authRetries, rejected, calls, reqs>>
    /\ UNCHANGED notAuth

\* httpClient: the downstream request is answered 401.
Resp401(c) ==
    /\ pc[c] = "request"
    /\ clearToken
    /\ rejected' = rejected \cup {tok[c]}
    /\ Fail(c, [cause |-> "auth", code |-> "AUTH_ERROR", from |-> "request",
                msg |-> "Authentication token expired"])
    /\ Sent(c)
    /\ UNCHANGED <<isLoading, now, configured, nextToken, calls, reqs>>
    /\ UNCHANGED notAuth

\* httpClient: the downstream request is answered non-2xx other than 401.
RespApiError(c) ==
    /\ pc[c] = "request"
    /\ Fail(c, [cause |-> "api", code |-> "API_ERROR", from |-> "request",
                msg |-> "Request failed"])
    /\ Sent(c)
    /\ UNCHANGED <<authStore, now, configured, nextToken, rejected, calls, reqs>>
    /\ UNCHANGED notAuth

\* httpClient: fetch() of the downstream request rejects; the TypeError
\* carries no code.
RespNetworkFail(c) ==
    /\ pc[c] = "request"
    /\ Fail(c, [cause |-> "network", code |-> NoCode, from |-> "request",
                msg |-> MsgFetchFailed])
    /\ Sent(c)
    /\ UNCHANGED <<authStore, now, configured, nextToken, rejected, calls, reqs>>
    /\ UNCHANGED notAuth

Tick ==
    /\ now < MaxTicks * TickMs
    /\ now' = now + TickMs
    /\ UNCHANGED <<authStore, configured, nextToken, pc, tok, failureCount,
                   lastErr, via, awaited, authRetries, rejected, calls, reqs>>
    /\ UNCHANGED notAuth

\* -------------------------------------------- location store, Search page

Codes == {"JFK", "LAX", "NYC"}
Queries == 1..MaxQueries

\* A LocationSearchResult, as far as the store and the page read it.
Loc(code) == [code |-> code]
NoLoc == [code |-> ""]

NoRun == [phase |-> "none", origin |-> "", destination |-> "",
          snapOrigin |-> NoLoc, snapDestination |-> NoLoc, originResult |-> NoLoc]

\* What getLocationByCode(code) may resolve to: the exact match, the first
\* result of the search when none matches, or null (nothing found, or any
\* failure of the lookup).
Locations == {Loc(x) : x \in Codes} \cup {NoLoc}
LookupResults(code) == {Loc(code), NoLoc} \cup {Loc(x) : x \in Codes \ {code}}

\* cacheLocation
cacheLocation(c, location) == [c EXCEPT ![location.code] = location]

CacheBoth(c, origin, destination) ==
    LET c1 == IF origin # NoLoc THEN cacheLocation(c, origin) ELSE c
    IN  IF destination # NoLoc THEN cacheLocation(c1, destination) ELSE c1

\* setSelectedLocations
setSelectedLocations(origin, destination) ==
    /\ selectedOrigin' = origin
    /\ selectedDestination' = destination
    /\ cache' = CacheBoth(cache, origin, destination)

\* fetchLocations, from "setOriginLocation(originResult)" to its end.
ApplyLocations(k, run, originResult, destResult) ==
    /\ originLocation' = originResult
    /\ destinationLocation' = destResult
    /\ IF originResult # NoLoc \/ destResult # NoLoc
       THEN setSelectedLocations(originResult, destResult)
       ELSE UNCHANGED locStore
    /\ isLoadingLocations' = FALSE
    /\ eff' = [eff EXCEPT ![k] = [run EXCEPT !.phase = "done",
                                             !.originResult = originResult]]

\* fetchLocations, the destination half: the selection of the store state
\* read when the run started, else the cache as it is now, else a lookup.
ResolveDestination(k, run, originResult) ==
    LET destResult == IF run.snapDestination.code = run.destination
                      THEN run.snapDestination
                      ELSE cache[run.destination]
    IN  IF destResult = NoLoc
        THEN /\ eff' = [eff EXCEPT ![k] = [run EXCEPT !.phase = "destination",
                                                  !.originResult = originResult]]
             /\ UNCHANGED <<locStore, originLocation, destinationLocation>>
             /\ isLoadingLocations' = TRUE
        ELSE ApplyLocations(k, run, originResult, destResult)

\* The effect of [origin, destination]: setIsLoadingLocations(true) and
\* fetchLocations up to its first await. selOrigin/selDestination are the
\* selection held by the store when the effect runs.
RunEffect(k, origin, destination, selOrigin, selDestination) ==
    LET run == [phase |-> "origin", origin |-> origin, destination |-> destination,
                snapOrigin |-> selOrigin, snapDestination |-> selDestination,
                originResult |-> NoLoc]
        originResult == IF selOrigin.code = origin THEN selOrigin
                        ELSE cache[origin]
    IN  IF originResult = NoLoc
        THEN /\ eff' = [eff EXCEPT ![k] = run]
             /\ isLoadingLocations' = TRUE
             /\ UNCHANGED <<locStore, originLocation, destinationLocation>>
        ELSE ResolveDestination(k, run, originResult)

\* The URL of the Search page changes to another origin/destination (a link,
\* the browser history): the effect runs again; runs in flight keep going.
Navigate(origin, destination) ==
    /\ latest < MaxQueries
    /\ <<origin, destination>> # <<urlOrigin, urlDestination>>
    /\ latest' = latest + 1
    /\ urlOrigin' = origin
    /\ urlDestination' = destination
    /\ RunEffect(latest + 1, origin, destination, selectedOrigin,
                 selectedDestination)
    /\ UNCHANGED notLoc

\* handleSearch: the form (shown once isLoadingLocations is false) is
\* submitted with two locations picked from the autocomplete. It calls
\* setSelectedLocations and sets the URL; when origin or destination changed
\* the effect runs, finds both codes selected and applies them at once
\* (writing the same selection and cache entries again).
handleSearch(origin, destination) ==
    /\ latest >= 1
    /\ ~isLoadingLocations
    /\ urlOrigin' = origin
    /\ urlDestination' = destination
    /\ IF <<origin, destination>> # <<urlOrigin, urlDestination>>
       THEN /\ latest < MaxQueries
            /\ latest' = latest + 1
            /\ RunEffect(latest + 1, origin, destination, Loc(origin),
                         Loc(destination))
       ELSE /\ setSelectedLocations(Loc(origin), Loc(destination))
            /\ UNCHANGED <<latest, eff, originLocation, destinationLocation,
                           isLoadingLocations>>
    /\ UNCHANGED notLoc

\* await getLocationByCode(origin) resolves.
OriginResolved(k, result) ==
    /\ eff[k].phase = "origin"
    /\ result \in LookupResults(eff[k].origin)
    /\ urlOrigin' = urlOrigin
    /\ urlDestination' = urlDestination
    /\ latest' = latest
    /\ ResolveDestination(k, eff[k], result)
    /\ UNCHANGED notLoc

\* await getLocationByCode(destination) resolves.
DestinationResolved(k, result) ==
    /\ eff[k].phase = "destination"
    /\ result \in LookupResults(eff[k].destination)
    /\ urlOrigin' = urlOrigin
    /\ urlDestination' = urlDestination
    /\ latest' = latest
    /\ ApplyLocations(k, eff[k], eff[k].originResult, result)
    /\ UNCHANGED notLoc

InitLoc ==
    /\ cache = [c \in Codes |-> NoLoc]
    /\ selectedOrigin = NoLoc
    /\ selectedDestination = NoLoc
    /\ urlOrigin = ""
    /\ urlDestination = ""
    /\ originLocation = NoLoc
    /\ destinationLocation = NoLoc
    /\ isLoadingLocations = TRUE
    /\ eff = [k \in Queries |-> NoRun]
    /\ latest = 0


\* ------------------------------------------------------------ filter engine

\* Normalized offers (FlightOffer) as far as the filters read them. price is
\* price.total in cents; a segment carries its airline code and the HH:mm
\* times of departure and arrival; duration is duration.totalMinutes.
Seg(airline, depH, arrH) ==
    [airline |-> airline, departure |-> [h |-> depH, m |-> 30],
     arrival |-> [h |-> arrH, m |-> 5]]

Itin(direction, duration, segments) ==
    [direction |-> direction, duration |-> duration, segments |-> segments,
     stops |-> Len(segments) - 1]

OfferPool ==
    { \* one way, non-stop
      [id |-> 1, price |-> 10000,
       itineraries |-> << Itin("outbound", 180, << Seg("AA", 8, 11) >>) >>],
      \* round trip, non-stop out, 1 stop back
      [id |-> 2, price |-> 85642,
       itineraries |-> << Itin("outbound", 95, << Seg("AA", 0, 1) >>),
                          Itin("inbound", 300,
                               << Seg("BA", 9, 11), Seg("AA", 13, 15) >>) >>],
      \* one way, 1 stop
      [id |-> 3, price |-> 10950,
       itineraries |-> << Itin("outbound", 400,
                               << Seg("BA", 23, 2), Seg("AA", 3, 5) >>) >>],
      \* round trip, 2 stops out, non-stop back
      [id |-> 4, price |-> 9999,
       itineraries |-> << Itin("outbound", 1441,
                               << Seg("BA", 12, 14), Seg("BA", 15, 18),
                                  Seg("BA", 20, 24) >>),
                          Itin("inbound", 200, << Seg("AA", 6, 9) >>) >>] }

Range(seq) == {seq[i] : i \in 1..Len(seq)}

\* Offer lists of a search result: the provider gives each offer its own id.
OfferLists ==
    UNION { {l \in [1..n -> OfferPool] : \A i, j \in 1..n : i # j => l[i] # l[j]}
            : n \in 0..MaxOffers }

Floor(cents) == cents \div 100
Ceil(cents) == (cents + 99) \div 100

SetMin(S) == CHOOSE x \in S : \A y \in S : x <= y
SetMax(S) == CHOOSE x \in S : \A y \in S : x >= y

getOutboundItinerary(offer) ==
    LET out == {i \in 1..Len(offer.itineraries) :
                   offer.itineraries[i].direction = "outbound"}
    IN  IF out # {} THEN offer.itineraries[SetMin(out)]
        ELSE offer.itineraries[1]

StopsCategory(stops) == IF stops >= 2 THEN 2 ELSE stops

meetsStopsFilterOutboundOnly(offer, allowedStops) ==
    \/ Len(allowedStops) = 0
    \/ StopsCategory(getOutboundItinerary(offer).stops) \in Range(allowedStops)

meetsStopsFilterEmptyMatchesNothing(offer, allowedStops) ==
    \A i \in 1..Len(offer.itineraries) :
        StopsCategory(offer.itineraries[i].stops) \in Range(allowedStops)

meetsStopsFilter(offer, allowedStops) ==
    IF Len(allowedStops) = 0 THEN TRUE
    ELSE \A i \in 1..Len(offer.itineraries) :
            StopsCategory(offer.itineraries[i].stops) \in Range(allowedStops)

\* parseInt(time.split(":")[0], 10)
getDepartureHour(offer) ==
    LET outbound == getOutboundItinerary(offer)
    IN  IF Len(outbound.segments) = 0 THEN 0
        ELSE outbound.segments[1].departure.h

getArrivalHourFirstSegment(offer) ==
    LET outbound == getOutboundItinerary(offer)
    IN  IF Len(outbound.segments) = 0 THEN 0
        ELSE outbound.segments[1].arrival.h

getArrivalHour(offer) ==
    LET outbound == getOutboundItinerary(offer)
    IN  IF Len(outbound.segments) = 0 THEN 0
        ELSE outbound.segments[Len(outbound.segments)].arrival.h

getTotalDuration(offer) == getOutboundItinerary(offer).duration

AnyItineraryAirlines(offer) ==
    UNION {Range([i \in 1..Len(offer.itineraries[j].segments) |->
                     offer.itineraries[j].segments[i].airline]) :
              j \in 1..Len(offer.itineraries)}

OutboundAirlines(offer) ==
    Range([i \in 1..Len(getOutboundItinerary(offer).segments) |->
              getOutboundItinerary(offer).segments[i].airline])

\* filterOptions (useMemo over the offers prop); prices in whole currency
\* units as Math.floor / Math.ceil leave them.
filterOptions(os) ==
    IF Len(os) = 0
    THEN [airlines |-> {}, minPrice |-> 0, maxPrice |-> 1000,
          maxDuration |-> 1440, stops |-> {}]
    ELSE [airlines |-> UNION {OutboundAirlines(os[i]) : i \in 1..Len(os)},
          minPrice |-> Floor(SetMin({os[i].price : i \in 1..Len(os)})),
          maxPrice |-> Ceil(SetMax({os[i].price : i \in 1..Len(os)} \cup {0})),
          maxDuration |->
              ((SetMax({getTotalDuration(os[i]) : i \in 1..Len(os)} \cup {0})
                + 29) \div 30) * 30,
          stops |-> UNION {{StopsCategory(os[i].itineraries[j].stops) :
                               j \in 1..Len(os[i].itineraries)} :
                           i \in 1..Len(os)} ]

\* The predicate of applyFilters' offers.filter(...).
PassesFilters(offer, f) ==
    /\ meetsStopsFilter(offer, f.stops)
    /\ Len(f.airlines) > 0 =>
           \E a \in Range(f.airlines) : a \in OutboundAirlines(offer)
    /\ ~ (offer.price < f.priceRange[1] * 100
          \/ offer.price > f.priceRange[2] * 100)
    /\ ~ (getDepartureHour(offer) < f.departureTimeRange[1]
          \/ getDepartureHour(offer) > f.departureTimeRange[2])
    /\ ~ (getArrivalHour(offer) < f.arrivalTimeRange[1]
          \/ getArrivalHour(offer) > f.arrivalTimeRange[2])
    /\ ~ (getTotalDuration(offer) > f.maxDuration)

applyFiltersDropFirst(os, newFilters) ==
    LET kept == SelectSeq(os, LAMBDA offer : PassesFilters(offer, newFilters))
    IN  IF Len(kept) > 0 THEN Tail(kept) ELSE kept

applyFilters(os, newFilters) ==
    SelectSeq(os, LAMBDA offer : PassesFilters(offer, newFilters))

\* The filter state of useState at mount and of clearFilters.
clearedFilters(os) ==
    [stops |-> <<>>, airlines |-> <<>>,
     priceRange |-> <<filterOptions(os).minPrice, filterOptions(os).maxPrice>>,
     departureTimeRange |-> <<0, 24>>,
     arrivalTimeRange |-> <<0, 24>>,
     maxDuration |-> filterOptions(os).maxDuration]

\* [...list, x] or list.filter(y => y # x)
Toggle(list, x) ==
    IF x \in Range(list) THEN SelectSeq(list, LAMBDA y : y # x)
    ELSE Append(list, x)

\* Values a slider with this min, max and step is moved to.
SliderValues(min, max, step) ==
    {v \in {min + k * step : k \in 0..(NumSliderStops - 1)} : v <= max}
        \cup {max}

SliderRanges(min, max, step) ==
    {<<lo, hi>> \in SliderValues(min, max, step) \X SliderValues(min, max, step) :
        lo <= hi}

\* allOffers of the Search page: the list it displays.
DisplayedOffers == IF filteredOffers.isNull THEN offers ELSE filteredOffers.v

\* The offers prop of FlightFilters: offers={data.offers}.
OffersProp == offers

\* setFilters(newFilters); applyFilters(newFilters) -> onFilterChange ->
\* setFilteredOffers.
ChangeFilters(newFilters, op) ==
    /\ Len(OffersProp) > 0
    /\ filters' = newFilters
    /\ filteredOffers' = [isNull |-> FALSE, v |-> applyFilters(OffersProp, newFilters)]
    /\ lastOp' = op
    /\ UNCHANGED offers
    /\ UNCHANGED notFilter

handleStopsChange(stop) ==
    /\ stop \in filterOptions(OffersProp).stops
    /\ ChangeFilters([filters EXCEPT !.stops = Toggle(@, stop)], "change")

handleAirlineChange(code) ==
    /\ code \in filterOptions(OffersProp).airlines
    /\ ChangeFilters([filters EXCEPT !.airlines = Toggle(@, code)], "change")

handlePriceChange(value) ==
    /\ value \in SliderRanges(filterOptions(OffersProp).minPrice,
                              filterOptions(OffersProp).maxPrice, 10)
    /\ value # filters.priceRange
    /\ ChangeFilters([filters EXCEPT !.priceRange = value], "change")

handleDepartureTimeChange(value) ==
    /\ value \in SliderRanges(0, 24, 1)
    /\ value # filters.departureTimeRange
    /\ ChangeFilters([filters EXCEPT !.departureTimeRange = value], "change")

handleArrivalTimeChange(value) ==
    /\ value \in SliderRanges(0, 24, 1)
    /\ value # filters.arrivalTimeRange
    /\ ChangeFilters([filters EXCEPT !.arrivalTimeRange = value], "change")

handleDurationChange(value) ==
    /\ value \in SliderValues(60, filterOptions(OffersProp).maxDuration, 30)
    /\ value # filters.maxDuration
    /\ ChangeFilters([filters EXCEPT !.maxDuration = value], "change")

clearFilters ==
    /\ Len(OffersProp) > 0
    /\ ChangeFilters(clearedFilters(OffersProp), "clearFilters")

\* FlightFilters mounts with the offers of the search result; the Search
\* page has no filtered list yet.
InitFilter(os) ==
    /\ offers = os
    /\ filters = clearedFilters(os)
    /\ filteredOffers = [isNull |-> TRUE, v |-> <<>>]
    /\ lastOp = "mount"

\* const allOffers = filteredOffers ?? data?.offers ?? []
allOffers == IF filteredOffers.isNull THEN offers ELSE filteredOffers.v

\* What the results block renders and hands to FlightHighlights: nothing but
\* the "No flights found" notice when data.offers is empty, allOffers
\* otherwise.
ShownOffers == IF Len(offers) = 0 THEN <<>> ELSE allOffers

\* handleSearch changed the URL and the flight search query of the new
\* parameters is answered with os. The results block was taken down while the
\* query was loading, so FlightFilters mounts anew over data.offers with its
\* initial filter state; filteredOffers is state of the Search component,
\* which stayed mounted, and nothing sets it.
NewSearchResult(os) ==
    /\ os \in OfferLists
    /\ offers' = os
    /\ filters' = clearedFilters(os)
    /\ lastOp' = "mount"
    /\ UNCHANGED filteredOffers
    /\ UNCHANGED notFilter

\* ------------------------------------------------------------ flight service

\* Strings of the provider payload are sequences of characters.
DigitChars == <<"0", "1", "2", "3", "4", "5", "6", "7", "8", "9">>

IsDigit(ch) == \E d \in 1..10 : DigitChars[d] = ch

DigitValue(ch) == (CHOOSE d \in 1..10 : DigitChars[d] = ch) - 1

\* parseInt(text, 10) of a run of digits.
RECURSIVE parseInt(_)
parseInt(text) ==
    IF Len(text) = 0 THEN 0
    ELSE parseInt(SubSeq(text, 1, Len(text) - 1)) * 10
             + DigitValue(text[Len(text)])

\* Length of the longest run of digits of text that starts at pos (\d+).
RECURSIVE DigitRun(_, _)
DigitRun(text, pos) ==
    IF pos <= Len(text) /\ IsDigit(text[pos])
    THEN 1 + DigitRun(text, pos + 1)
    ELSE 0

\* parseFloat of a decimal string, in hundredths: the digits before the
\* point, then at most two digits after it count.
parseFloat(text) ==
    LET int == DigitRun(text, 1)
        hasFrac == int + 1 <= Len(text) /\ text[int + 1] = "."
        frac == IF hasFrac THEN DigitRun(text, int + 2) ELSE 0
        f1 == IF frac >= 1 THEN DigitValue(text[int + 2]) ELSE 0
        f2 == IF frac >= 2 THEN DigitValue(text[int + 3]) ELSE 0
    IN  parseInt(SubSeq(text, 1, int)) * 100 + f1 * 10 + f2

RECURSIVE Gcd(_, _)
Gcd(a, b) == IF b = 0 THEN a ELSE Gcd(b, a % b)

\* The quotient a / b as a fraction in lowest terms.
Quotient(a, b) == [num |-> a \div Gcd(a, b), den |-> b \div Gcd(a, b)]

\* The regular expression PT(?:(\d+)H)?(?:(\d+)M)? of parseDuration: the
\* first "PT" of the text, then the digits before an H, then the digits
\* before an M; a group that does not match is the empty sequence.
DurationMatch(text) ==
    LET starts == {i \in 1..(Len(text) - 1) : text[i] = "P" /\ text[i + 1] = "T"}
    IN  IF starts = {} THEN [found |-> FALSE, g1 |-> <<>>, g2 |-> <<>>]
        ELSE LET at == (CHOOSE i \in starts : \A j \in starts : i <= j) + 2
                 n1 == DigitRun(text, at)
                 has1 == n1 > 0 /\ at + n1 <= Len(text) /\ text[at + n1] = "H"
                 at2 == IF has1 THEN at + n1 + 1 ELSE at
                 n2 == DigitRun(text, at2)
                 has2 == n2 > 0 /\ at2 + n2 <= Len(text) /\ text[at2 + n2] = "M"
             IN  [found |-> TRUE,
                  g1 |-> IF has1 THEN SubSeq(text, at, at + n1 - 1) ELSE <<>>,
                  g2 |-> IF has2 THEN SubSeq(text, at2, at2 + n2 - 1) ELSE <<>>]

parseDurationMinutesDefaultOne(isoDuration) ==
    LET match == DurationMatch(isoDuration)
        hours == IF match.found /\ match.g1 # <<>> THEN parseInt(match.g1) ELSE 0
        minutes == IF match.found /\ match.g2 # <<>> THEN parseInt(match.g2) ELSE 1
    IN  [hours |-> hours, minutes |-> minutes,
         totalMinutes |-> hours * 60 + minutes]

parseDuration(isoDuration) ==
    LET match == DurationMatch(isoDuration)
        hours == IF match.found /\ match.g1 # <<>> THEN parseInt(match.g1) ELSE 0
        minutes == IF match.found /\ match.g2 # <<>> THEN parseInt(match.g2) ELSE 0
    IN  [hours |-> hours, minutes |-> minutes,
         totalMinutes |-> hours * 60 + minutes]

normalizeItineraryStopsOfSegments(itinerary, index) ==
    [direction |-> IF index = 1 THEN "outbound" ELSE "inbound",
     duration |-> parseDuration(itinerary.duration),
     segments |-> itinerary.segments,
     stops |-> Len(itinerary.segments)]

\* index is the position in offer.itineraries, from 1.
normalizeItinerary(itinerary, index) ==
    [direction |-> IF index = 1 THEN "outbound" ELSE "inbound",
     duration |-> parseDuration(itinerary.duration),
     segments |-> itinerary.segments,
     stops |-> Len(itinerary.segments) - 1]

TotalPassengersOfSearch(offer) == searchPassengers

totalPassengers(offer) == Len(offer.travelerPricings)

normalizeOffer(offer) ==
    [id |-> offer.id,
     price |-> [total |-> parseFloat(offer.price.grandTotal),
                perTraveler |-> Quotient(parseFloat(offer.price.grandTotal),
                                         totalPassengers(offer))],
     itineraries |-> [i \in 1..Len(offer.itineraries) |->
                         normalizeItinerary(offer.itineraries[i], i)],
     isNonStop |-> \A i \in 1..Len(offer.itineraries) :
                       Len(offer.itineraries[i].segments) = 1,
     isOneWay |-> offer.oneWay]

\* Provider payloads (AmadeusFlightOffer), as far as normalizeOffer reads
\* them. Durations are "PT<h>H<m>M" with either component optional.
Chars(n) == IF n < 10 THEN <<DigitChars[n + 1]>>
            ELSE <<DigitChars[(n \div 10) + 1], DigitChars[(n % 10) + 1]>>

DurationHours == {<<>>, Chars(2) \o <<"H">>, Chars(12) \o <<"H">>}
DurationMinutes == {<<>>, Chars(5) \o <<"M">>, Chars(45) \o <<"M">>}
RawDurations ==
    {<<"P", "T">> \o h \o m : h \in DurationHours, m \in DurationMinutes}
        \ {<<"P", "T">>}

RawSegments ==
    UNION {[1..n -> {[carrierCode |-> "AA"]}] : n \in 1..MaxSegments}

RawItineraries == [duration : RawDurations, segments : RawSegments]

GrandTotals ==
    { <<"8", "5", "6", ".", "4", "2">>, <<"1", "0", "0", ".", "0", "0">>,
      <<"9", "9", ".", "5">> }

TravelerPricings ==
    UNION {[1..n -> {[travelerType |-> "ADULT"]}] : n \in 1..MaxTravelers}

RawOffers ==
    [id : {1},
     oneWay : BOOLEAN,
     price : [grandTotal : GrandTotals],
     travelerPricings : TravelerPricings,
     itineraries : UNION {[1..n -> RawItineraries] : n \in {1, 2}}]

NoRaw == [id |-> 0]
NoOffer == [id |-> 0]

\* searchFlights(params) is called: the query has no data until the
\* response arrives.
searchFlights(passengers) ==
    /\ searchPassengers' = passengers
    /\ rawOffer' = NoRaw
    /\ normalized' = NoOffer
    /\ UNCHANGED notNorm

\* The response arrives and normalizeFlightOffers maps normalizeOffer over
\* its offers.
normalizeFlightOffers(raw) ==
    /\ searchPassengers # 0
    /\ rawOffer = NoRaw
    /\ rawOffer' = raw
    /\ normalized' = normalizeOffer(raw)
    /\ UNCHANGED searchPassengers
    /\ UNCHANGED notNorm

InitNorm ==
    /\ rawOffer = NoRaw
    /\ searchPassengers = 0
    /\ normalized = NoOffer

\* ------------------------------------------------------- flight highlights

\* Offers handed to FlightHighlights: equal prices and equal mean durations
\* occur among them.
HlOffer(id, price, durations) ==
    [id |-> id, price |-> price,
     itineraries |-> [i \in 1..Len(durations) |->
                         Itin(IF i = 1 THEN "outbound" ELSE "inbound",
                              durations[i], << Seg("AA", 8, 11) >>)]]

HighlightPool ==
    { HlOffer(1, 20000, <<300>>),
      HlOffer(2, 10000, <<400>>),
      HlOffer(3, 10000, <<300, 500>>),
      HlOffer(4, 30000, <<200, 401>>),
      HlOffer(5, 15000, <<250>>),
      HlOffer(6, 10000, <<100, 400>>) }

HighlightLists ==
    UNION { {l \in [1..n -> HighlightPool] : \A i, j \in 1..n : i # j => l[i] # l[j]}
            : n \in 0..MaxHighlightOffers }

RECURSIVE SumDurations(_)
SumDurations(itineraries) ==
    IF Len(itineraries) = 0 THEN 0
    ELSE itineraries[1].duration + SumDurations(Tail(itineraries))

\* totalMinutes / offer.itineraries.length, as a fraction.
getAverageDuration(offer) ==
    [num |-> SumDurations(offer.itineraries), den |-> Len(offer.itineraries)]

\* The comparators handed to sort, as functions of two offers of the list.
\* (a, b) => a.price.total - b.price.total
ComparePrice(os) == [a \in Range(os), b \in Range(os) |-> a.price - b.price]

\* (a, b) => getAverageDuration(a) - getAverageDuration(b), by its sign.
CompareDuration(os) ==
    [a \in Range(os), b \in Range(os) |->
        getAverageDuration(a).num * getAverageDuration(b).den
            - getAverageDuration(b).num * getAverageDuration(a).den]

\* [...list].sort(compare): ascending by compare, elements that compare equal
\* keep their order (Array.prototype.sort is stable).
sort(list, compare) ==
    LET n == Len(list)
        pos(i) == 1 + Cardinality({j \in 1..n :
                        \/ compare[list[j], list[i]] < 0
                        \/ compare[list[j], list[i]] = 0 /\ j < i})
    IN  [p \in 1..n |-> list[CHOOSE i \in 1..n : pos(i) = p]]

cheapestLastOfEquals(os) ==
    os[CHOOSE i \in 1..Len(os) :
           /\ \A j \in 1..Len(os) : os[i].price <= os[j].price
           /\ \A j \in (i + 1)..Len(os) : os[j].price > os[i].price]

cheapest(os) == sort(os, ComparePrice(os))[1]

fastest(os) == sort(os, CompareDuration(os))[1]

selectHighlightsAlwaysTwo(os) ==
    IF Len(os) = 0 THEN <<>>
    ELSE << [type |-> "cheapest", offer |-> cheapest(os)],
            [type |-> "fastest", offer |-> fastest(os)] >>

\* The highlights memo.
selectHighlights(os) ==
    IF Len(os) = 0 THEN <<>>
    ELSE IF fastest(os).id = cheapest(os).id THEN <<>>
    ELSE << [type |-> "cheapest", offer |-> cheapest(os)],
            [type |-> "fastest", offer |-> fastest(os)] >>

\* FlightHighlights renders with another offers prop.
FlightHighlights(os) ==
    /\ os # hlOffers
    /\ hlOffers' = os
    /\ highlights' = selectHighlights(os)
    /\ UNCHANGED notHl

InitHl ==
    /\ hlOffers = <<>>
    /\ highlights = <<>>

\* ------------------------------------------------------- location service

\* Keywords typed into the autocomplete and codes found in the URL.
Keywords == {"", "N", "NY", "JFK", "NYC", "SFO"}

\* String.length of a keyword.
length(text) ==
    CASE text = "" -> 0
      [] text = "N" -> 1
      [] text = "NY" -> 2
      [] OTHER -> 3

\* A location of the provider response (AmadeusLocation), as far as
\* normalizeLocations reads it; score is analytics?.travelers?.score, the
\* empty sequence when it is missing.
RawLoc(id, subType, iataCode, cityCode, score) ==
    [id |-> id, subType |-> subType, iataCode |-> iataCode,
     cityCode |-> cityCode, score |-> score]

LocationPool == {
    RawLoc("CNYC", "CITY", "NYC", "NYC", <<50>>),
    RawLoc("CLON", "CITY", "LON", "LON", <<>>),
    RawLoc("CSFO", "CITY", "SFO", "SFO", <<80>>),
    RawLoc("AJFK", "AIRPORT", "JFK", "NYC", <<30>>),
    RawLoc("ALGA", "AIRPORT", "LGA", "NYC", <<>>),
    RawLoc("ASFO", "AIRPORT", "SFO", "SFO", <<70>>),
    RawLoc("ALAX", "AIRPORT", "LAX", "LAX", <<90>>)}

\* Responses of the location endpoint: each location once.
RawLocationLists ==
    UNION { {l \in [1..n -> LocationPool] : \A i, j \in 1..n : i # j => l[i] # l[j]}
            : n \in 0..MaxLocations }

\* normalizeLocations, first pass: the LocationSearchResult of one location.
normalizeLocation(loc) ==
    [id |-> loc.id, type |-> loc.subType, code |-> loc.iataCode,
     cityCode |-> loc.cityCode, score |-> loc.score]

\* standaloneAirports: every location that is not a CITY, in response order.
standaloneAirports(locations) ==
    LET others == SelectSeq(locations, LAMBDA loc : loc.subType # "CITY")
    IN  [i \in 1..Len(others) |-> normalizeLocation(others[i])]

\* Keys of citiesMap.
CityCodes(locations) ==
    {locations[i].iataCode : i \in {j \in 1..Len(locations) :
                                        locations[j].subType = "CITY"}}

NoUsedAirports(locations) == {}

\* usedAirports: ids of the airports pushed into a city of citiesMap.
usedAirports(locations) ==
    {a.id : a \in {b \in Range(standaloneAirports(locations)) :
                       b.cityCode \in CityCodes(locations)}}

\* (b.score || 0), (a.score || 0)
ScoreOrZero(entry) == IF entry.score = <<>> THEN 0 ELSE entry.score[1]

CompareScoreAscending(cs) ==
    [a \in Range(cs), b \in Range(cs) |-> ScoreOrZero(a) - ScoreOrZero(b)]

\* (a, b) => (b.score || 0) - (a.score || 0)
CompareScore(cs) ==
    [a \in Range(cs), b \in Range(cs) |-> ScoreOrZero(b) - ScoreOrZero(a)]

\* Array.from(citiesMap.values()) after the second pass: one entry per city
\* code, at the position of the first CITY with that code, made of the last
\* CITY with that code, holding the airports with its cityCode in response
\* order.
CityEntries(locations) ==
    LET n == Len(locations)
        isCity(i) == locations[i].subType = "CITY"
        same(i, j) == isCity(j) /\ locations[j].iataCode = locations[i].iataCode
        firsts == SelectSeq([i \in 1..n |-> i],
                            LAMBDA i : isCity(i) /\ \A j \in 1..(i - 1) : ~same(i, j))
        last(i) == CHOOSE j \in 1..n : same(i, j) /\ \A m \in (j + 1)..n : ~same(i, m)
        entry(i) ==
            LET loc == locations[last(i)]
            IN  [id |-> loc.id, type |-> loc.subType, code |-> loc.iataCode,
                 cityCode |-> loc.cityCode, score |-> loc.score,
                 airports |-> SelectSeq(standaloneAirports(locations),
                                        LAMBDA a : a.cityCode = loc.iataCode)]
    IN  [p \in 1..Len(firsts) |-> entry(firsts[p])]

\* normalizeLocations: the cities sorted by score, then the airports no city
\* took.
normalizeLocations(locations) ==
    LET cities == CityEntries(locations)
    IN  sort(cities, CompareScore(cities))
          \o SelectSeq(standaloneAirports(locations),
                       LAMBDA a : a.id \notin usedAirports(locations))

KeywordTooShortOnlyEmpty(keyword) == keyword = ""

\* searchLocations: !params.keyword || params.keyword.length < 2
KeywordTooShort(keyword) == keyword = "" \/ length(keyword) < 2

FindLocationFirstResult(results, code) ==
    IF Len(results) > 0 THEN results[1] ELSE NoLoc

\* getLocationByCode, the loop over the results and the fallback: the first
\* result that has the code or holds an airport with it, else results[0],
\* else null.
FindLocation(results, code) ==
    LET nested(i) == IF "airports" \in DOMAIN results[i]
                     THEN SelectSeq(results[i].airports, LAMBDA a : a.code = code)
                     ELSE <<>>
        hits == {i \in 1..Len(results) :
                    results[i].code = code \/ Len(nested(i)) > 0}
    IN  IF hits # {}
        THEN LET i == CHOOSE h \in hits : \A g \in hits : h <= g
             IN  IF results[i].code = code THEN results[i] ELSE nested(i)[1]
        ELSE IF Len(results) > 0 THEN results[1] ELSE NoLoc

PropagatesAlways(op) == TRUE

\* Whether an error thrown inside the operation reaches its caller:
\* searchLocations has no handler, getLocationByCode catches everything and
\* returns null.
Propagates(op) == op = "searchLocations"

NoCall == [op |-> "none", keyword |-> "", phase |-> "idle", failure |-> "none"]
NoNet == [tokenCalls |-> 0, requests |-> 0, response |-> <<>>]

CallOver == dirCall.phase \in {"idle", "returned", "threw"}

\* The operation returns value without (further) use of the network.
DirReturn(op, keyword, value) ==
    /\ dirCall' = [op |-> op, keyword |-> keyword, phase |-> "returned",
                   failure |-> "none"]
    /\ dirOut' = value
    /\ dirResults' = <<>>
    /\ dirNet' = NoNet

\* searchLocations reaches api.get: httpClient asks the auth store for a
\* token before it sends anything.
DirApiGet(op, keyword) ==
    /\ dirCall' = [op |-> op, keyword |-> keyword, phase |-> "token",
                   failure |-> "none"]
    /\ dirOut' = <<>>
    /\ dirResults' = <<>>
    /\ dirNet' = [NoNet EXCEPT !.tokenCalls = 1]

\* useAirportSearch / a caller of the service: searchLocations({keyword}).
searchLocations(keyword) ==
    /\ CallOver
    /\ IF KeywordTooShort(keyword)
       THEN DirReturn("searchLocations", keyword, <<>>)
       ELSE DirApiGet("searchLocations", keyword)
    /\ UNCHANGED notDir

\* useLocationStore.getLocation
getLocation(code) == cache[code]

\* fetchLocations of the Search page resolving one code of the URL: the
\* selection of the store, else the cache, else getLocationByCode, which
\* returns null for a code shorter than 2 and searches otherwise.
resolveByCode(code) ==
    /\ CallOver
    /\ IF code = "" THEN DirReturn("resolveByCode", code, NoLoc)
       ELSE IF selectedOrigin.code = code
            THEN DirReturn("resolveByCode", code, selectedOrigin)
       ELSE IF getLocation(code) # NoLoc
            THEN DirReturn("resolveByCode", code, getLocation(code))
       ELSE IF length(code) < 2
            THEN DirReturn("resolveByCode", code, NoLoc)
       ELSE DirApiGet("resolveByCode", code)
    /\ UNCHANGED notDir

\* An error is thrown inside api.get: it leaves searchLocations; the catch
\* block of getLocationByCode turns it into null.
DirThrow(failure) ==
    /\ dirCall' = [dirCall EXCEPT !.failure = failure,
                       !.phase = IF Propagates(dirCall.op) THEN "threw"
                                 ELSE "returned"]
    /\ dirOut' = IF Propagates(dirCall.op) THEN <<>> ELSE NoLoc
    /\ dirResults' = <<>>

\* getValidToken throws: no client identity (CONFIG_ERROR) or a failed token
\* refresh (AUTH_ERROR).
DirTokenFails(failure) ==
    /\ dirCall.phase = "token"
    /\ failure \in {"config", "refresh"}
    /\ DirThrow(failure)
    /\ UNCHANGED dirNet
    /\ UNCHANGED notDir

\* getValidToken returns a token: the location request is sent.
DirRequestSent ==
    /\ dirCall.phase = "token"
    /\ dirCall' = [dirCall EXCEPT !.phase = "request"]
    /\ dirNet' = [dirNet EXCEPT !.requests = @ + 1]
    /\ UNCHANGED <<dirResults, dirOut>>
    /\ UNCHANGED notDir

\* The location request fails: fetch() rejects, or the answer is a 401 or
\* another non-2xx status.
DirRequestFails(failure) ==
    /\ dirCall.phase = "request"
    /\ failure \in {"transport", "status", "401"}
    /\ DirThrow(failure)
    /\ UNCHANGED dirNet
    /\ UNCHANGED notDir

\* The location request is answered 2xx with data = response.
DirResponse(response) ==
    /\ dirCall.phase = "request"
    /\ dirCall' = [dirCall EXCEPT !.phase = "returned"]
    /\ dirNet' = [dirNet EXCEPT !.response = response]
    /\ dirResults' = normalizeLocations(response)
    /\ dirOut' = IF dirCall.op = "searchLocations"
                 THEN normalizeLocations(response)
                 ELSE FindLocation(normalizeLocations(response), dirCall.keyword)
    /\ UNCHANGED notDir

InitDir ==
    /\ dirCall = NoCall
    /\ dirNet = NoNet
    /\ dirResults = <<>>
    /\ dirOut = <<>>

\* Codes a cache of the location service model has a slot for.
DirCodes == Keywords \cup {loc.iataCode : loc \in LocationPool}

\* Entries earlier lookups of the session may have left in the cache.
CachedEntries == {
    normalizeLocation(RawLoc("AJFK", "AIRPORT", "JFK", "NYC", <<30>>)),
    normalizeLocations(<<RawLoc("AJFK", "AIRPORT", "JFK", "NYC", <<30>>),
                         RawLoc("CNYC", "CITY", "NYC", "NYC", <<50>>)>>)[1]}

CacheOf(entries) ==
    [c \in DirCodes |->
        IF \E e \in entries : e.code = c
        THEN CHOOSE e \in entries : e.code = c
        ELSE NoLoc]

InitAuth ==
    /\ accessToken = NULL
    /\ expiresAt = NULL
    /\ isLoading = FALSE
    /\ error = NoError
    /\ now = 0
    /\ nextToken = 1
    /\ pc = [c \in Callers |-> "idle"]
    /\ tok = [c \in Callers |-> NULL]
    /\ failureCount = [c \in Callers |-> 0]
    /\ lastErr = [c \in Callers |-> NoErr]
    /\ via = [c \in Callers |-> "none"]
    /\ awaited = [c \in Callers |-> Pending]
    /\ authRetries = [c \in Callers |-> 0]
    /\ rejected = {}
    /\ calls = 0
    /\ reqs = 0

Init ==
    /\ InitAuth
    /\ configured \in BOOLEAN
    /\ InitLoc
    /\ InitFilter(<<>>)
    /\ InitNorm
    /\ InitHl
    /\ InitDir

Next ==
    \/ \E c \in Callers : CallCached(c)
    \/ \E c \in Callers : CallJoin(c)
    \/ \E c \in Callers : CallConfigError(c)
    \/ \E c \in Callers : CallStartRefresh(c)
    \/ \E c \in Callers, e \in ExpiresInValues : TokenOk(c, e)
    \/ \E c \in Callers : TokenRejected(c)
    \/ \E c \in Callers : TokenNetworkFail(c)
    \/ \E c \in Callers : Poll(c)
    \/ \E c \in Callers : RespOk(c)
    \/ \E c \in Callers : Resp401(c)
    \/ \E c \in Callers : RespApiError(c)
    \/ \E c \in Callers : RespNetworkFail(c)
    \/ Tick

Spec == Init /\ [][Next]_vars

InitLocSpec ==
    /\ InitAuth
    /\ configured = TRUE
    /\ InitLoc
    /\ InitFilter(<<>>)
    /\ InitNorm
    /\ InitHl
    /\ InitDir

NextLoc ==
    \/ \E o, d \in Codes : Navigate(o, d)
    \/ \E o, d \in Codes : handleSearch(o, d)
    \/ \E k \in Queries, r \in Locations : OriginResolved(k, r)
    \/ \E k \in Queries, r \in Locations : DestinationResolved(k, r)

SpecLoc == InitLocSpec /\ [][NextLoc]_vars

InitFilterSpec ==
    /\ InitAuth
    /\ configured = TRUE
    /\ InitLoc
    /\ \E os \in OfferLists : InitFilter(os)
    /\ InitNorm
    /\ InitHl
    /\ InitDir

\* Every position of the price and of the duration slider over the search
\* results considered.
PriceRanges ==
    UNION {SliderRanges(filterOptions(os).minPrice,
                        filterOptions(os).maxPrice, 10) : os \in OfferLists}

DurationValues ==
    UNION {SliderValues(60, filterOptions(os).maxDuration, 30) :
              os \in OfferLists}

NextFilter ==
    \/ \E stop \in {0, 1, 2} : handleStopsChange(stop)
    \/ \E code \in {"AA", "BA"} : handleAirlineChange(code)
    \/ \E value \in PriceRanges : handlePriceChange(value)
    \/ \E value \in SliderRanges(0, 24, 1) : handleDepartureTimeChange(value)
    \/ \E value \in SliderRanges(0, 24, 1) : handleArrivalTimeChange(value)
    \/ \E value \in DurationValues : handleDurationChange(value)
    \/ clearFilters

SpecFilter == InitFilterSpec /\ [][NextFilter]_vars

\* The Search page over several searches: filter changes and new results.
NextSearch ==
    \/ NextFilter
    \/ \E os \in OfferLists : NewSearchResult(os)

SpecSearch == InitFilterSpec /\ [][NextSearch]_vars

NextNorm ==
    \/ \E passengers \in 1..MaxTravelers : searchFlights(passengers)
    \/ \E raw \in RawOffers : normalizeFlightOffers(raw)

SpecNorm == InitLocSpec /\ [][NextNorm]_vars

NextHl == \E os \in HighlightLists : FlightHighlights(os)

SpecHl == InitLocSpec /\ [][NextHl]_vars

\* The location service with a cache left by earlier lookups of the session.
InitDirSpec ==
    /\ InitAuth
    /\ configured = TRUE
    /\ \E entries \in SUBSET CachedEntries : cache = CacheOf(entries)
    /\ selectedOrigin = NoLoc
    /\ selectedDestination = NoLoc
    /\ urlOrigin = ""
    /\ urlDestination = ""
    /\ originLocation = NoLoc
    /\ destinationLocation = NoLoc
    /\ isLoadingLocations = TRUE
    /\ eff = [k \in Queries |-> NoRun]
    /\ latest = 0
    /\ InitFilter(<<>>)
    /\ InitNorm
    /\ InitHl
    /\ InitDir

DirFailures == {"config", "refresh", "transport", "status", "401"}

NextDir ==
    \/ \E keyword \in Keywords : searchLocations(keyword)
    \/ \E code \in Keywords : resolveByCode(code)
    \/ \E failure \in DirFailures : DirTokenFails(failure)
    \/ DirRequestSent
    \/ \E failure \in DirFailures : DirRequestFails(failure)
    \/ \E response \in RawLocationLists : DirResponse(response)

SpecDir == InitDirSpec /\ [][NextDir]_vars

\* ------------------------------------------------- claims: credential cache

\* C1 -- Single-flight. Since the last token response (or the start), however
\* many getValidToken() calls found no usable credential, exactly one
\* authentication request was sent (client identity configured; without one
\* the call fails before any request, see C6), and never two are in flight.
C1_SingleFlight ==
    /\ Cardinality({c \in Callers : pc[c] = "fetching"}) <= 1
    /\ (configured /\ calls >= 1) => reqs = 1
    /\ ~configured => reqs = 0

\* Two calls were issued before any response arrived: one fetches, one waits.
C1_Witness ==
    /\ calls >= 2
    /\ reqs = 1
    /\ \E c, d \in Callers : pc[c] = "fetching" /\ pc[d] = "waiting"

\* C2 -- A caller that joined a refresh in flight receives the result of that
\* refresh: the token it fetched if it succeeded, the same failure (message)
\* if it failed, whatever happens between the refresh settling and the caller
\* being served.
C2_WaiterGetsRefreshResult ==
    \A c \in Callers :
        /\ (pc[c] = "request" /\ via[c] = "waited") =>
               (awaited[c].st = "ok" /\ tok[c] = awaited[c].token)
        /\ lastErr[c].from = "waited" =>
               (awaited[c].st = "fail" /\ lastErr[c].msg = awaited[c].msg)

\* C3 -- A 401 answer to a downstream request clears the cached credential in
\* the step that throws the error; the cached token is never one that was
\* answered 401, and no getValidToken() call returns such a token.
C3_InvalidateOn401 ==
    [][ /\ \A c \in Callers :
              (pc[c] = "request" /\ lastErr'[c].from = "request"
                                 /\ lastErr'[c].cause = "auth") =>
                  (accessToken' = NULL /\ expiresAt' = NULL)
        /\ accessToken' \notin rejected'
        /\ \A c \in Callers :
              (pc[c] # "request" /\ pc'[c] = "request") =>
                  tok'[c] \notin rejected'
      ]_vars

\* A token was answered 401 and a later call obtained another token from a
\* fresh refresh.
C3_Witness ==
    /\ rejected # {}
    /\ \E c \in Callers :
          /\ pc[c] = "request"
          /\ via[c] \in {"own", "waited"}
          /\ \A r \in rejected : tok[c] > r

\* C4 -- Every token getValidToken() hands to a caller (from the cache, from
\* the refresh the caller started, or from a refresh it waited on) satisfies
\* now < expiresAt - 60s at the moment it is returned.
C4_ReturnedTokenUsable ==
    [][ \A c \in Callers :
            (pc[c] # "request" /\ pc'[c] = "request") =>
                /\ tok'[c] = accessToken'
                /\ expiresAt' # NULL
                /\ now' < expiresAt' - 60 * 1000
      ]_vars

\* C5 -- With a cached credential and now < expiresAt - 60s, getValidToken()
\* returns the cached token, sends no authentication request and leaves the
\* store unchanged; in every other case the refresh path is taken: a request
\* is sent, or the refresh in flight is joined (without a client identity the
\* refresh attempt ends in ConfigError before a request, see C6).
C5_CachedFastPath ==
    [][ \A c \in Callers :
            (pc[c] \in {"idle", "retryWait"} /\ pc'[c] # pc[c]) =>
                IF accessToken # NULL /\ expiresAt # NULL
                   /\ now < expiresAt - 60 * 1000
                THEN /\ pc'[c] = "request"
                     /\ tok'[c] = accessToken
                     /\ reqs' = reqs
                     /\ UNCHANGED <<accessToken, expiresAt, isLoading, error>>
                ELSE \/ pc'[c] = "fetching" /\ reqs' = reqs + 1 /\ isLoading'
                     \/ pc'[c] = "waiting" /\ isLoading /\ reqs' = reqs
                     \/ ~configured /\ lastErr'[c].code = "CONFIG_ERROR"
                                    /\ reqs' = reqs
      ]_vars

\* A call was answered from the cache while the cached credential is usable.
C5_Witness ==
    \E c \in Callers :
        /\ pc[c] = "request"
        /\ via[c] = "cache"
        /\ tok[c] = accessToken
        /\ now < expiresAt - 60 * 1000

\* C6 -- getValidToken() fails with ConfigError without a client identity
\* (no authentication request sent), AuthError when the token endpoint
\* rejects the request and NetworkError when the transport fails; a
\* transport failure is never reported as AuthError.
C6_ErrorKinds ==
    /\ ~configured => (reqs = 0 /\ nextToken = 1)
    /\ \A c \in Callers :
          lastErr[c].from \in {"own", "waited"} =>
              /\ lastErr[c].cause = "config" => lastErr[c].code = "CONFIG_ERROR"
              /\ lastErr[c].cause = "auth" => lastErr[c].code = "AUTH_ERROR"
              /\ lastErr[c].cause = "network" =>
                     lastErr[c].code \notin {"AUTH_ERROR", "CONFIG_ERROR"}

\* C7 -- Retry policy of a failed flight search: a ConfigError is never
\* retried, a rejected token (AuthError) is retried at most once, and no
\* query is retried more than 2 times, whoever delivered the failure.
C7_RetryPolicy ==
    \A c \in Callers :
        /\ lastErr[c].cause = "config" => pc[c] = "error"
        /\ authRetries[c] <= 1
        /\ failureCount[c] <= 2

\* ------------------------------------------------ claims: location lookups

\* C8 -- The late result of a location lookup that was superseded by a newer
\* query is discarded: when a run of fetchLocations that is no longer the
\* latest one completes, the selected locations and the location cache stay
\* as they are.
C8_SupersededLookupDiscarded ==
    [][ \A k \in Queries :
            (eff[k].phase \in {"origin", "destination"}
             /\ eff'[k].phase = "done" /\ k # latest) =>
                UNCHANGED <<selectedOrigin, selectedDestination, cache>>
      ]_vars

\* C9 -- Applying the empty criteria (no stops, no airlines, price range,
\* hour ranges and max duration at the bounds computed from the offers)
\* returns every offer, in the same order, for every offer list: when the
\* filter state is the cleared one the filtered list the page shows is the
\* offer list itself. An empty stops or airlines set restricts nothing: with
\* both empty, every offer inside the price, hour and duration ranges is kept.
C9_EmptyCriteriaKeepAll ==
    /\ applyFilters(offers, clearedFilters(offers)) = offers
    /\ (~filteredOffers.isNull /\ filters = clearedFilters(offers))
           => filteredOffers.v = offers
    /\ (~filteredOffers.isNull /\ filters.stops = <<>> /\ filters.airlines = <<>>)
           => \A i \in 1..Len(offers) :
                  ( /\ offers[i].price >= filters.priceRange[1] * 100
                    /\ offers[i].price <= filters.priceRange[2] * 100
                    /\ getDepartureHour(offers[i]) >= filters.departureTimeRange[1]
                    /\ getDepartureHour(offers[i]) <= filters.departureTimeRange[2]
                    /\ getArrivalHour(offers[i]) >= filters.arrivalTimeRange[1]
                    /\ getArrivalHour(offers[i]) <= filters.arrivalTimeRange[2]
                    /\ getTotalDuration(offers[i]) <= filters.maxDuration )
                  => offers[i] \in Range(filteredOffers.v)

\* clearFilters has run on a full offer list and the page shows all of it.
C9_Witness ==
    /\ lastOp = "clearFilters"
    /\ Len(offers) = MaxOffers
    /\ filters = clearedFilters(offers)
    /\ ~filteredOffers.isNull
    /\ filteredOffers.v = offers

\* C10 -- Stops filter: with a non-empty stop set an offer passes only if
\* every one of its itineraries has its stop category (0, 1, or 2 for two or
\* more stops) in the set; under stops = {0} a round trip whose outbound is
\* non-stop and whose inbound has 1 stop is not in the filtered list.
C10_StopsEveryItinerary ==
    (~filteredOffers.isNull /\ filters.stops # <<>>) =>
        /\ \A i \in 1..Len(filteredOffers.v) :
               \A j \in 1..Len(filteredOffers.v[i].itineraries) :
                   LET n == Len(filteredOffers.v[i].itineraries[j].segments) - 1
                   IN  (IF n >= 2 THEN 2 ELSE n) \in Range(filters.stops)
        /\ Range(filters.stops) = {0} =>
               \A i \in 1..Len(offers) :
                   ( /\ Len(offers[i].itineraries) = 2
                     /\ Len(offers[i].itineraries[1].segments) = 1
                     /\ Len(offers[i].itineraries[2].segments) = 2 )
                   => offers[i] \notin Range(filteredOffers.v)

\* Only "Non-stop" is ticked, every other filter is at its cleared value, and
\* the round trip with a non-stop outbound and a 1-stop inbound is among the
\* offers but not among the filtered ones.
C10_Witness ==
    /\ ~filteredOffers.isNull
    /\ filters = [clearedFilters(offers) EXCEPT !.stops = <<0>>]
    /\ \E i \in 1..Len(offers) :
           /\ Len(offers[i].itineraries) = 2
           /\ offers[i].itineraries[1].stops = 0
           /\ offers[i].itineraries[2].stops = 1
           /\ offers[i] \notin Range(filteredOffers.v)

\* C11 -- Airlines filter: with a non-empty airline set an offer passes the
\* airline dimension if and only if at least one segment of its outbound
\* itinerary is flown by an airline of the set; the inbound segments have no
\* influence. Every filtered offer has such a segment, and with every other
\* filter at its cleared value the filtered offers are exactly those.
C11_AirlinesOutboundOnly ==
    (~filteredOffers.isNull /\ filters.airlines # <<>>) =>
        /\ \A i \in 1..Len(filteredOffers.v) :
               \E k \in 1..Len(filteredOffers.v[i].itineraries[1].segments) :
                   filteredOffers.v[i].itineraries[1].segments[k].airline
                       \in Range(filters.airlines)
        /\ filters = [clearedFilters(offers) EXCEPT !.airlines = filters.airlines]
               => \A i \in 1..Len(offers) :
                      offers[i] \in Range(filteredOffers.v)
                      <=> \E k \in 1..Len(offers[i].itineraries[1].segments) :
                              offers[i].itineraries[1].segments[k].airline
                                  \in Range(filters.airlines)

\* Only one airline is ticked; an offer flown by it on the way back only is
\* among the offers and not among the filtered ones.
C11_Witness ==
    /\ ~filteredOffers.isNull
    /\ filters = [clearedFilters(offers) EXCEPT !.airlines = <<"BA">>]
    /\ \E i \in 1..Len(offers) :
           /\ Len(offers[i].itineraries) = 2
           /\ \E k \in 1..Len(offers[i].itineraries[2].segments) :
                  offers[i].itineraries[2].segments[k].airline = "BA"
           /\ \A k \in 1..Len(offers[i].itineraries[1].segments) :
                  offers[i].itineraries[1].segments[k].airline # "BA"
           /\ offers[i] \notin Range(filteredOffers.v)

\* C12 -- The filtered list is exactly the offers that pass every dimension
\* at once, in their original order: stops (every itinerary), airlines
\* (outbound), price within [min, max] inclusive, departure hour of the
\* outbound's first segment and arrival hour of its last segment within their
\* ranges inclusive, outbound duration not above maxDuration.
C12_AllDimensionsAnd ==
    ~filteredOffers.isNull =>
        filteredOffers.v =
            SelectSeq(offers, LAMBDA o :
                LET out == o.itineraries[1]
                    cat(n) == IF n >= 2 THEN 2 ELSE n
                IN  /\ \/ filters.stops = <<>>
                       \/ \A j \in 1..Len(o.itineraries) :
                              \E x \in 1..Len(filters.stops) :
                                  filters.stops[x] = cat(Len(o.itineraries[j].segments) - 1)
                    /\ \/ filters.airlines = <<>>
                       \/ \E k \in 1..Len(out.segments) :
                              \E x \in 1..Len(filters.airlines) :
                                  filters.airlines[x] = out.segments[k].airline
                    /\ filters.priceRange[1] * 100 <= o.price
                    /\ o.price <= filters.priceRange[2] * 100
                    /\ filters.departureTimeRange[1] <= out.segments[1].departure.h
                    /\ out.segments[1].departure.h <= filters.departureTimeRange[2]
                    /\ filters.arrivalTimeRange[1] <= out.segments[Len(out.segments)].arrival.h
                    /\ out.segments[Len(out.segments)].arrival.h <= filters.arrivalTimeRange[2]
                    /\ out.duration <= filters.maxDuration)

\* Two dimensions are narrowed at once and an offer that passes one of them
\* but not the other is excluded, while another offer is kept.
C12_Witness ==
    /\ ~filteredOffers.isNull
    /\ filters.stops # <<>>
    /\ filters.airlines # <<>>
    /\ Len(filteredOffers.v) = 1
    /\ \E i \in 1..Len(offers) :
           /\ offers[i] \notin Range(filteredOffers.v)
           /\ meetsStopsFilter(offers[i], filters.stops)
           /\ \A a \in Range(filters.airlines) : a \notin OutboundAirlines(offers[i])

\* C13 -- The filter bounds (available airlines, min/max price, max duration,
\* present stop categories) are computed from the unfiltered offer list of
\* the search: they are those of the whole result in every state, and no
\* filter change alters them.
C13_BoundsFromUnfiltered ==
    [][ /\ filterOptions(OffersProp)' = filterOptions(OffersProp)
        /\ filterOptions(OffersProp)' = filterOptions(offers')
      ]_vars

\* The list is narrowed to offers whose own bounds would be different, and
\* the bounds offered are still those of the whole result.
C13_Witness ==
    /\ ~filteredOffers.isNull
    /\ Len(filteredOffers.v) >= 1
    /\ Len(filteredOffers.v) < Len(offers)
    /\ filterOptions(filteredOffers.v).maxPrice < filterOptions(offers).maxPrice
    /\ filterOptions(filteredOffers.v).airlines # filterOptions(offers).airlines
    /\ filterOptions(OffersProp) = filterOptions(offers)

\* C14 -- Applying the filters is idempotent: filtering the filtered list
\* again with the same criteria gives the same list, for every offer list
\* and every criteria.
C14_ApplyIdempotent ==
    /\ applyFilters(applyFilters(offers, filters), filters)
           = applyFilters(offers, filters)
    /\ ~filteredOffers.isNull =>
           applyFilters(filteredOffers.v, filters) = filteredOffers.v

\* Criteria that keep several offers and drop another have been applied.
C14_Witness ==
    /\ ~filteredOffers.isNull
    /\ filters # clearedFilters(offers)
    /\ Len(filteredOffers.v) >= 1
    /\ Len(filteredOffers.v) < Len(offers)
    /\ applyFilters(filteredOffers.v, filters) = filteredOffers.v

\* ------------------------------------------------- claims: flight service

\* C15 -- For every normalized offer, isOneWay is true exactly when the
\* offer has a single itinerary, whatever one-way flag the provider payload
\* carries.
C15_OneWayIffSingleItinerary ==
    normalized # NoOffer =>
        (normalized.isOneWay <=> Len(normalized.itineraries) = 1)

\* C16 -- For every normalized offer, isNonStop is true exactly when every
\* itinerary has stops = 0, and each itinerary's stops is its segment count
\* minus 1; an offer with a 1-segment outbound and a 2-segment inbound has
\* isNonStop false and inbound stops 1.
C16_NonStopIffEveryItineraryDirect ==
    normalized # NoOffer =>
        /\ normalized.isNonStop <=>
               \A i \in 1..Len(normalized.itineraries) :
                   normalized.itineraries[i].stops = 0
        /\ Len(normalized.itineraries) = Len(rawOffer.itineraries)
        /\ \A i \in 1..Len(rawOffer.itineraries) :
               normalized.itineraries[i].stops
                   = Len(rawOffer.itineraries[i].segments) - 1
        /\ ( /\ Len(rawOffer.itineraries) = 2
             /\ Len(rawOffer.itineraries[1].segments) = 1
             /\ Len(rawOffer.itineraries[2].segments) = 2 )
           => (~normalized.isNonStop /\ normalized.itineraries[2].stops = 1)

\* A round trip with a direct outbound and a connecting return was normalized.
C16_Witness ==
    /\ normalized # NoOffer
    /\ Len(rawOffer.itineraries) = 2
    /\ Len(rawOffer.itineraries[1].segments) = 1
    /\ Len(rawOffer.itineraries[2].segments) = 2
    /\ ~normalized.isNonStop
    /\ normalized.itineraries[1].stops = 0
    /\ normalized.itineraries[2].stops = 1

\* C17 -- The per-traveler price is the provider grand total divided by the
\* number of traveler-pricing entries of the offer, not by the passengers of
\* the search; 856.42 with 2 entries gives 428.21 (prices in hundredths).
C17_PerTravelerByPricingEntries ==
    normalized # NoOffer =>
        /\ normalized.price.perTraveler.den > 0
        /\ normalized.price.perTraveler.num * Len(rawOffer.travelerPricings)
               = normalized.price.total * normalized.price.perTraveler.den
        /\ ( /\ rawOffer.price.grandTotal = <<"8", "5", "6", ".", "4", "2">>
             /\ Len(rawOffer.travelerPricings) = 2 )
           => ( /\ normalized.price.total = 85642
                /\ normalized.price.perTraveler = [num |-> 42821, den |-> 1] )

\* The offer of the scenario, answered to a search for 3 passengers.
C17_Witness ==
    /\ normalized # NoOffer
    /\ rawOffer.price.grandTotal = <<"8", "5", "6", ".", "4", "2">>
    /\ Len(rawOffer.travelerPricings) = 2
    /\ searchPassengers = 3
    /\ normalized.price.perTraveler = [num |-> 42821, den |-> 1]

\* C18 -- For every provider duration string the parsed duration has
\* totalMinutes = hours * 60 + minutes, hours and minutes are the numbers
\* written before H and M, and a missing component is 0.
C18_ParseDuration ==
    normalized # NoOffer =>
        \A i \in 1..Len(rawOffer.itineraries) :
            LET text == rawOffer.itineraries[i].duration
                d == normalized.itineraries[i].duration
            IN  /\ d.totalMinutes = d.hours * 60 + d.minutes
                /\ \A hasH, hasM \in BOOLEAN : \A h \in {2, 12}, m \in {5, 45} :
                       text = <<"P", "T">>
                                \o (IF hasH THEN Chars(h) \o <<"H">> ELSE <<>>)
                                \o (IF hasM THEN Chars(m) \o <<"M">> ELSE <<>>)
                       => /\ d.hours = IF hasH THEN h ELSE 0
                          /\ d.minutes = IF hasM THEN m ELSE 0

\* "PT12H" (no minutes) and "PT45M" (no hours) were parsed.
C18_Witness ==
    /\ normalized # NoOffer
    /\ Len(rawOffer.itineraries) = 2
    /\ rawOffer.itineraries[1].duration = <<"P", "T", "1", "2", "H">>
    /\ normalized.itineraries[1].duration
           = [hours |-> 12, minutes |-> 0, totalMinutes |-> 720]
    /\ rawOffer.itineraries[2].duration = <<"P", "T", "4", "5", "M">>
    /\ normalized.itineraries[2].duration
           = [hours |-> 0, minutes |-> 45, totalMinutes |-> 45]

\* ---------------------------------------------- claims: flight highlights

\* C19 -- The highlights are empty whenever the selected cheapest and the
\* selected fastest offer are the same offer (same id), and for an empty
\* offer list; otherwise they are exactly two, cheapest then fastest.
C19_HighlightsEmptyOrTwo ==
    IF Len(hlOffers) = 0 THEN highlights = <<>>
    ELSE IF cheapest(hlOffers).id = fastest(hlOffers).id THEN highlights = <<>>
    ELSE /\ Len(highlights) = 2
         /\ highlights[1].type = "cheapest"
         /\ highlights[1].offer = cheapest(hlOffers)
         /\ highlights[2].type = "fastest"
         /\ highlights[2].offer = fastest(hlOffers)

\* Several offers, one of them both the cheapest and the fastest: nothing is
\* highlighted.
C19_Witness ==
    /\ Len(hlOffers) >= 2
    /\ cheapest(hlOffers).id = fastest(hlOffers).id
    /\ highlights = <<>>

\* C20 -- The cheapest offer is the first offer of the list, in list order,
\* with the minimum total price, and the fastest one the first with the
\* minimum mean of its itinerary durations; both are members of the list.
C20_FirstMinimumWins ==
    Len(hlOffers) > 0 =>
        LET n == Len(hlOffers)
            sum(o) == IF Len(o.itineraries) = 1 THEN o.itineraries[1].duration
                      ELSE o.itineraries[1].duration + o.itineraries[2].duration
            \* twice the mean duration
            mean2(o) == IF Len(o.itineraries) = 1 THEN 2 * sum(o) ELSE sum(o)
            ci == CHOOSE i \in 1..n :
                      /\ \A j \in 1..n : hlOffers[i].price <= hlOffers[j].price
                      /\ \A j \in 1..(i - 1) : hlOffers[j].price > hlOffers[i].price
            fi == CHOOSE i \in 1..n :
                      /\ \A j \in 1..n : mean2(hlOffers[i]) <= mean2(hlOffers[j])
                      /\ \A j \in 1..(i - 1) : mean2(hlOffers[j]) > mean2(hlOffers[i])
        IN  /\ cheapest(hlOffers) = hlOffers[ci]
            /\ fastest(hlOffers) = hlOffers[fi]
            /\ highlights # <<>> =>
                   /\ highlights[1].offer = hlOffers[ci]
                   /\ highlights[2].offer = hlOffers[fi]

\* Two offers share the minimum price and two share the minimum mean
\* duration; the first of each pair is highlighted.
C20_Witness ==
    /\ Len(hlOffers) = 3
    /\ Len(highlights) = 2
    /\ \E i, j \in 1..3 :
           /\ i < j
           /\ hlOffers[i].price = hlOffers[j].price
           /\ highlights[1].offer = hlOffers[i]
    /\ \E i, j \in 1..3 :
           /\ i < j
           /\ CompareDuration(hlOffers)[hlOffers[i], hlOffers[j]] = 0
           /\ highlights[2].offer = hlOffers[i]

\* C25 -- The credential cache follows EMPTY -> FETCHING -> VALID -> EMPTY
\* (expiry or invalidation) and makes no other transition. This is the
\* statement as the specification gives it; a refresh that fails takes the
\* cache from FETCHING to EMPTY, which it does not list.
C25_StateMachineAsStated ==
    [][LET s == CacheState(accessToken, expiresAt, isLoading, now)
           t == CacheState(accessToken', expiresAt', isLoading', now')
       IN  \/ s = t
           \/ s = "EMPTY" /\ t = "FETCHING"
           \/ s = "FETCHING" /\ t = "VALID"
           \/ s = "VALID" /\ t = "EMPTY"]_vars

\* C25 (amended) -- The transitions of the credential cache are EMPTY ->
\* FETCHING (a refresh starts), FETCHING -> VALID (the refresh stores a usable
\* credential), FETCHING -> EMPTY (the refresh fails, or what it stores is
\* already inside the expiry buffer) and VALID -> EMPTY (expiry or
\* invalidation); there is no other transition, and at most one refresh is in
\* flight whenever the cache is FETCHING.
C25_StateMachine ==
    /\ [](/\ Cardinality({c \in Callers : pc[c] = "fetching"}) <= 1
          /\ isLoading <=> (\E c \in Callers : pc[c] = "fetching"))
    /\ [][LET s == CacheState(accessToken, expiresAt, isLoading, now)
              t == CacheState(accessToken', expiresAt', isLoading', now')
          IN  \/ s = t
              \/ s = "EMPTY" /\ t = "FETCHING"
              \/ s = "FETCHING" /\ t = "VALID"
              \/ s = "FETCHING" /\ t = "EMPTY"
              \/ s = "VALID" /\ t = "EMPTY"]_vars

\* A credential fetched at time 0 for 90 s was VALID and has since entered
\* the expiry buffer: the cache went EMPTY -> FETCHING -> VALID -> EMPTY.
C25_Witness ==
    /\ accessToken # NULL
    /\ expiresAt = 90 * 1000
    /\ now = TickMs
    /\ ~isLoading
    /\ CacheState(accessToken, expiresAt, isLoading, now) = "EMPTY"

\* C26 -- The token and its expiry are both present or both absent in every
\* state, and every step that changes one of them sets the pair together:
\* a new token comes with the expiry computed for it, and the expiry never
\* changes under a token that stays.
C26_WholeValueReplacement ==
    /\ []((accessToken = NULL) <=> (expiresAt = NULL))
    /\ [][/\ (accessToken' # accessToken /\ accessToken' # NULL) =>
                expiresAt' \in {now + e * 1000 : e \in ExpiresInValues}
          /\ (accessToken' # accessToken /\ accessToken' = NULL) =>
                expiresAt' = NULL
          /\ (expiresAt' # expiresAt) => (accessToken' # accessToken)]_vars

\* A credential was invalidated by a 401 and a later refresh stored another.
C26_Witness ==
    /\ rejected # {}
    /\ accessToken # NULL
    /\ expiresAt # NULL
    /\ accessToken \notin rejected

\* C30 -- A 401 answer to a request that carried a token other than the one
\* cached now leaves the cached credential alone.
C30_Late401KeepsNewerToken ==
    [][\A c \in Callers :
          (/\ pc[c] = "request"
           /\ lastErr'[c].from = "request"
           /\ lastErr'[c].cause = "auth"
           /\ pc'[c] # "request"
           /\ accessToken # NULL
           /\ tok[c] # accessToken)
          => (accessToken' = accessToken /\ expiresAt' = expiresAt)]_vars

\* C24 -- Once a run of fetchLocations has ended with an entry for its origin
\* code, no later run sends a location request for that same code (as its
\* origin or as its destination): it is answered from the cache. The runs
\* are those of one session; the cache is never cleared in it.
C24_ProducedCodeServedFromCache ==
    [][\A j, k \in Queries :
          (/\ eff[j].phase = "done"
           /\ eff[j].originResult # NoLoc
           /\ eff[k].phase = "none")
          => /\ eff'[k].phase = "origin" => eff'[k].origin # eff[j].origin
             /\ eff'[k].phase = "destination" =>
                    eff'[k].destination # eff[j].origin]_vars

\* --------------------------------------------- claims: location service

\* C21 -- searchLocations with a keyword shorter than 2 characters (the empty
\* keyword included) returns the empty list and uses no network: it asks the
\* auth store for no token and sends no location request.
C21_ShortKeywordNoNetwork ==
    (dirCall.op = "searchLocations" /\ length(dirCall.keyword) < 2) =>
        /\ dirCall.phase = "returned"
        /\ dirOut = <<>>
        /\ dirNet.tokenCalls = 0
        /\ dirNet.requests = 0

\* searchLocations("N") has returned.
C21_Witness ==
    /\ dirCall.op = "searchLocations"
    /\ dirCall.keyword = "N"
    /\ dirCall.phase = "returned"

\* C22 -- resolveByCode(code) returns the cached entry of the code when there
\* is one, without a location request; otherwise (for a code of 2 characters
\* or more) it sends one search and returns an entry whose code is the
\* requested one, taken from the top level of the result or from the airports
\* of one of its cities; when the result has none it returns the first
\* result, and null when the result is empty.
C22_ResolveByCode ==
    (dirCall.op = "resolveByCode" /\ dirCall.phase = "returned"
        /\ dirCall.failure = "none") =>
        LET code == dirCall.keyword
            cities == {i \in 1..Len(dirResults) : "airports" \in DOMAIN dirResults[i]}
            exactTop == {i \in 1..Len(dirResults) : dirResults[i].code = code}
            exactNested == {<<i, j>> \in cities \X (1..MaxLocations) :
                               /\ j <= Len(dirResults[i].airports)
                               /\ dirResults[i].airports[j].code = code}
        IN  IF cache[code] # NoLoc
            THEN dirOut = cache[code] /\ dirNet.requests = 0
            ELSE IF length(code) < 2
            THEN dirOut = NoLoc /\ dirNet.requests = 0
            ELSE /\ dirNet.requests = 1
                 /\ IF exactTop # {} \/ exactNested # {}
                    THEN \/ \E i \in exactTop : dirOut = dirResults[i]
                         \/ \E h \in exactNested :
                                dirOut = dirResults[h[1]].airports[h[2]]
                    ELSE IF Len(dirResults) > 0 THEN dirOut = dirResults[1]
                    ELSE dirOut = NoLoc

\* A code that is not cached was resolved to an airport nested under the
\* first city of the search result.
C22_Witness ==
    /\ dirCall.op = "resolveByCode"
    /\ dirCall.phase = "returned"
    /\ dirNet.requests = 1
    /\ Len(dirResults) > 0
    /\ dirResults[1].type = "CITY"
    /\ dirResults[1].code # dirCall.keyword
    /\ dirOut.code = dirCall.keyword

\* C23 -- resolveByCode never throws: when the lookup meets a failure
\* (missing configuration, failed token refresh, transport failure, 401 or
\* another non-2xx answer) the call returns null.
C23_NeverThrows ==
    dirCall.op = "resolveByCode" =>
        /\ dirCall.phase # "threw"
        /\ dirCall.failure # "none" =>
              (dirCall.phase = "returned" /\ dirOut = NoLoc)

\* The token refresh failed under a resolveByCode call, which has returned.
C23_Witness ==
    /\ dirCall.op = "resolveByCode"
    /\ dirCall.failure = "refresh"
    /\ dirCall.phase = "returned"

\* C27 -- Grouping of the list searchLocations returns for a response: an
\* airport whose cityCode is the code of a city of the response is held by
\* exactly that one city and is not at the top level; any other airport is at
\* the top level once and held by no city; only CITY entries have an airports
\* list, and the entries in it are airports without one.
C27_Grouping ==
    (dirCall.op = "searchLocations" /\ dirCall.phase = "returned"
        /\ dirNet.requests = 1) =>
        LET raw == dirNet.response
            out == dirOut
            cityCodes == {raw[i].iataCode :
                             i \in {j \in 1..Len(raw) : raw[j].subType = "CITY"}}
            holders == {i \in 1..Len(out) : "airports" \in DOMAIN out[i]}
            top(id) == {i \in 1..Len(out) : out[i].id = id}
            slots(id) == {<<i, j>> \in holders \X (1..MaxLocations) :
                             /\ j <= Len(out[i].airports)
                             /\ out[i].airports[j].id = id}
        IN  /\ \A i \in 1..Len(raw) : raw[i].subType = "AIRPORT" =>
                  IF raw[i].cityCode \in cityCodes
                  THEN /\ top(raw[i].id) = {}
                       /\ Cardinality(slots(raw[i].id)) = 1
                       /\ \A h \in slots(raw[i].id) :
                              out[h[1]].code = raw[i].cityCode
                  ELSE /\ Cardinality(top(raw[i].id)) = 1
                       /\ slots(raw[i].id) = {}
            /\ \A i \in holders :
                  /\ out[i].type = "CITY"
                  /\ \A j \in 1..Len(out[i].airports) :
                        /\ out[i].airports[j].type = "AIRPORT"
                        /\ "airports" \notin DOMAIN out[i].airports[j]

\* A returned list with a city that holds an airport, followed by an airport
\* no city took.
C27_Witness ==
    /\ dirCall.op = "searchLocations"
    /\ dirCall.phase = "returned"
    /\ Len(dirOut) = 2
    /\ dirOut[1].type = "CITY"
    /\ Len(dirOut[1].airports) = 1
    /\ dirOut[2].type = "AIRPORT"

\* C28 -- Order of the list searchLocations returns for a response: the city
\* entries come first, by descending score with a missing score counted as 0;
\* after them come the airports no city took, in the order they had in the
\* response.
C28_Order ==
    (dirCall.op = "searchLocations" /\ dirCall.phase = "returned"
        /\ dirNet.requests = 1) =>
        LET raw == dirNet.response
            out == dirOut
            score(e) == IF e.score = <<>> THEN 0 ELSE e.score[1]
            nCities == Cardinality({i \in 1..Len(out) : out[i].type = "CITY"})
            at(id) == CHOOSE p \in 1..Len(raw) : raw[p].id = id
        IN  /\ \A i \in 1..Len(out) : (out[i].type = "CITY") <=> (i <= nCities)
            /\ \A i, j \in 1..nCities :
                  i < j => score(out[i]) >= score(out[j])
            /\ \A i, j \in (nCities + 1)..Len(out) :
                  i < j => at(out[i].id) < at(out[j].id)

\* The response listed a city without a score before a scored city and an
\* airport of neither: the scored city is returned first, the airport last.
C28_Witness ==
    /\ dirCall.op = "searchLocations"
    /\ dirCall.phase = "returned"
    /\ Len(dirOut) = 3
    /\ dirNet.response[1].subType = "CITY"
    /\ dirNet.response[1].score = <<>>
    /\ dirOut[1].type = "CITY"
    /\ dirOut[1].score # <<>>
    /\ dirOut[2].id = dirNet.response[1].id
    /\ dirOut[3].type = "AIRPORT"

\* ------------------------------------------------- claims: Search page

\* C29 -- The offers the Search page shows and hands to FlightHighlights are
\* a sub-list of the offers of the current search result: the offers of the
\* result that are in the shown list, in the order of the result, are the
\* shown list.
C29_ShownOffersOfCurrentSearch ==
    ShownOffers = SelectSeq(offers, LAMBDA o : o \in Range(ShownOffers))

============================================================================
